---- MODULE Spec2Model ----
(***************************************************************************)
(* A model of package urlshort (src/urlshort/handler.go): the redirect     *)
(* resolver MapHandler, the loaders YAMLHandler / JSONHandler, the parsers  *)
(* parseYAML / parseJSON and buildMap.                                      *)
(*                                                                          *)
(* Strings are sequences of one-character strings, so that equality of     *)
(* strings is equality character by character.  The token "U+00E9" stands   *)
(* for one non-ASCII character (its UTF-8 bytes are C3 A9).                 *)
(*                                                                          *)
(* The library calls the package makes are modelled by what the library     *)
(* does on the alphabet used here: http.Redirect (with url.Parse,           *)
(* path.Split, path.Clean and hexEscapeNonASCII), json.Unmarshal and        *)
(* yaml.Unmarshal decoding into []ShortenedUrl.                             *)
(***************************************************************************)
EXTENDS Naturals, Sequences, FiniteSets

VARIABLES
    mode,       \* which constructor the caller uses: "map", "yaml", "json"
    input,      \* its first argument: a map (mode "map") or a document
    fallback,   \* its second argument: "nil" or the name of a handler
    handler,    \* "none" before construction, then "nil" or "closure"
    err,        \* the error returned by the constructor ("nil": none)
    calls,      \* the functions of the package called during construction
    table,      \* contents of the map object captured by the closure
    built,      \* contents of that map at the moment of construction
    writing,    \* a write of the caller to its map in progress, or NoWrite
    writes,     \* number of writes the caller has started
    crashed,    \* the Go runtime ended the process (fatal error)
    reqs        \* the requests being served, one per server goroutine

vars == <<mode, input, fallback, handler, err, calls, table, built, writing,
          writes, crashed, reqs>>

-----------------------------------------------------------------------------
(* Bounds of the model *)

\* number of requests served concurrently by the host HTTP server
MaxReqs == 2

\* number of items of an input document
MaxRecs == 2

\* number of writes the caller of MapHandler makes to its map afterwards
MaxWrites == 1

-----------------------------------------------------------------------------
(* Strings *)

Letters == {"a", "b", "c", "h", "x"}
Digits == {"5"}
NonASCII == {"U+00E9"}

HasPrefix(s, p) == Len(s) >= Len(p) /\ SubSeq(s, 1, Len(p)) = p

HasSuffix(s, p) == Len(s) >= Len(p) /\ SubSeq(s, Len(s) - Len(p) + 1, Len(s)) = p

\* strings.Index for a one-character separator; 0 when absent
Index(s, c) ==
    IF \E i \in 1..Len(s) : s[i] = c
    THEN CHOOSE i \in 1..Len(s) : s[i] = c /\ \A j \in 1..(i - 1) : s[j] # c
    ELSE 0

\* strings.LastIndex for a one-character separator; 0 when absent
LastIndex(s, c) ==
    IF \E i \in 1..Len(s) : s[i] = c
    THEN CHOOSE i \in 1..Len(s) : s[i] = c /\ \A j \in (i + 1)..Len(s) : s[j] # c
    ELSE 0

Contains(s, c) == Index(s, c) # 0

From(s, i) == SubSeq(s, i, Len(s))

-----------------------------------------------------------------------------
(* net/url: Parse, as far as http.Redirect reads its result *)

RECURSIVE getSchemeAt(_, _)
getSchemeAt(rawurl, i) ==
    IF i > Len(rawurl)
    THEN [scheme |-> <<>>, rest |-> rawurl, ok |-> TRUE]
    ELSE LET c == rawurl[i] IN
         IF c \in Letters THEN getSchemeAt(rawurl, i + 1)
         ELSE IF c \in Digits \cup {"+", "-", "."}
              THEN IF i = 1
                   THEN [scheme |-> <<>>, rest |-> rawurl, ok |-> TRUE]
                   ELSE getSchemeAt(rawurl, i + 1)
         ELSE IF c = ":"
              THEN IF i = 1
                   THEN [scheme |-> <<>>, rest |-> <<>>, ok |-> FALSE]
                   ELSE [scheme |-> SubSeq(rawurl, 1, i - 1),
                         rest |-> From(rawurl, i + 1), ok |-> TRUE]
         ELSE [scheme |-> <<>>, rest |-> rawurl, ok |-> TRUE]

getScheme(rawurl) == getSchemeAt(rawurl, 1)

\* validOptionalPort: "" or ":" followed by digits only
validOptionalPort(port) ==
    port = <<>> \/ (port[1] = ":" /\ \A i \in 2..Len(port) : port[i] \in Digits)

\* parseAuthority / parseHost: the host, and whether it is well formed
parseHost(authority) ==
    LET i == LastIndex(authority, ":") IN
    [host |-> authority,
     ok |-> i = 0 \/ validOptionalPort(From(authority, i))]

\* url.Parse(rawurl): [ok, Scheme, Host]
Parse(rawurl) ==
    LET s == getScheme(rawurl)
        q == Index(s.rest, "?")
        rest == IF q = 0 THEN s.rest ELSE SubSeq(s.rest, 1, q - 1)
        bad == [ok |-> FALSE, Scheme |-> <<>>, Host |-> <<>>]
    IN
    IF ~s.ok THEN bad
    ELSE IF ~HasPrefix(rest, <<"/">>)
    THEN IF s.scheme # <<>>
         THEN [ok |-> TRUE, Scheme |-> s.scheme, Host |-> <<>>]  \* opaque
         ELSE LET sl == Index(rest, "/")
                  segment == IF sl = 0 THEN rest ELSE SubSeq(rest, 1, sl - 1)
              IN IF Contains(segment, ":")
                 THEN bad     \* first path segment cannot contain colon
                 ELSE [ok |-> TRUE, Scheme |-> <<>>, Host |-> <<>>]
    ELSE IF (s.scheme # <<>> \/ ~HasPrefix(rest, <<"/", "/", "/">>))
            /\ HasPrefix(rest, <<"/", "/">>)
    THEN LET after == From(rest, 3)
             sl == Index(after, "/")
             authority == IF sl = 0 THEN after ELSE SubSeq(after, 1, sl - 1)
             h == parseHost(authority)
         IN IF h.ok
            THEN [ok |-> TRUE, Scheme |-> s.scheme, Host |-> h.host]
            ELSE bad
    ELSE [ok |-> TRUE, Scheme |-> s.scheme, Host |-> <<>>]

-----------------------------------------------------------------------------
(* path: Split and Clean *)

\* path.Split: the directory part, up to and including the last slash
SplitDir(p) == SubSeq(p, 1, LastIndex(p, "/"))

RECURSIVE Segments(_)
Segments(p) ==
    LET i == Index(p, "/") IN
    IF i = 0 THEN <<p>>
    ELSE <<SubSeq(p, 1, i - 1)>> \o Segments(From(p, i + 1))

RECURSIVE CleanSegs(_, _, _)
CleanSegs(segs, out, rooted) ==
    IF segs = <<>> THEN out
    ELSE LET e == Head(segs)
             next ==
                 IF e = <<>> \/ e = <<".">> THEN out
                 ELSE IF e = <<".", ".">>
                 THEN IF out # <<>> /\ out[Len(out)] # <<".", ".">>
                      THEN SubSeq(out, 1, Len(out) - 1)
                      ELSE IF rooted THEN out ELSE Append(out, e)
                 ELSE Append(out, e)
         IN CleanSegs(Tail(segs), next, rooted)

RECURSIVE Join(_)
Join(segs) ==
    IF segs = <<>> THEN <<>>
    ELSE IF Len(segs) = 1 THEN segs[1]
    ELSE segs[1] \o <<"/">> \o Join(Tail(segs))

\* path.Clean
Clean(p) ==
    IF p = <<>> THEN <<".">>
    ELSE LET rooted == p[1] = "/"
             body == Join(CleanSegs(Segments(p), <<>>, rooted))
         IN IF rooted THEN <<"/">> \o body
            ELSE IF body = <<>> THEN <<".">> ELSE body

-----------------------------------------------------------------------------
(* net/http: Redirect *)

RECURSIVE hexEscapeNonASCII(_)
hexEscapeNonASCII(s) ==
    IF s = <<>> THEN <<>>
    ELSE (IF Head(s) \in NonASCII THEN <<"%", "C", "3", "%", "A", "9">>
          ELSE <<Head(s)>>) \o hexEscapeNonASCII(Tail(s))

\* a resolver that treats every url as relative to the request path
MutRedirectTarget(r, url) == SplitDir(r.Path) \o url

\* the url http.Redirect puts in the Location header, before escaping
RedirectTarget(r, url) ==
    LET u == Parse(url) IN
    IF u.ok /\ u.Scheme = <<>> /\ u.Host = <<>>
    THEN LET oldpath == IF r.Path = <<>> THEN <<"/">> ELSE r.Path
             abs == IF url = <<>> \/ url[1] # "/"
                    THEN SplitDir(oldpath) \o url ELSE url
             q == Index(abs, "?")
             p == IF q = 0 THEN abs ELSE SubSeq(abs, 1, q - 1)
             query == IF q = 0 THEN <<>> ELSE From(abs, q)
             trailing == HasSuffix(p, <<"/">>)
             c == Clean(p)
             c2 == IF trailing /\ ~HasSuffix(c, <<"/">>) THEN c \o <<"/">> ELSE c
         IN c2 \o query
    ELSE url

StatusMovedPermanently == 301

\* http.Redirect(w, r, url, code) on a fresh response
Redirect(r, url, code) ==
    [status |-> code,
     hasLocation |-> TRUE,
     Location |-> hexEscapeNonASCII(RedirectTarget(r, url)),
     contentType |-> r.Method \in {"GET", "HEAD"},
     body |-> r.Method = "GET",
     by |-> "resolver"]

-----------------------------------------------------------------------------
(* Go maps and the records of the package *)

EmptyMap == [k \in {} |-> <<>>]

\* m[k] = v
Put(m, k, v) == [x \in DOMAIN m \cup {k} |-> IF x = k THEN v ELSE m[x]]

\* delete(m, k)
Delete(m, k) == [x \in DOMAIN m \ {k} |-> m[x]]

\* the zero value of ShortenedUrl
ZeroUrl == [Path |-> <<>>, Url |-> <<>>]

\* the Go field a document key is decoded into, by the struct tags
TagField(key) ==
    IF key = "path" THEN "Path" ELSE IF key = "url" THEN "Url" ELSE "none"

SetField(rec, field, text) ==
    IF field = "Path" THEN [rec EXCEPT !.Path = text]
    ELSE IF field = "Url" THEN [rec EXCEPT !.Url = text]
    ELSE rec

-----------------------------------------------------------------------------
(* Documents: what the syntax layer of a decoder hands to its unmarshaller. *)
(* A document is [syntax, top, items]: syntax "bad" for bytes that are not  *)
(* well formed; top the kind of the top-level value ("seq", "map",          *)
(* "scalar", or "empty" for no value at all); items the elements of a       *)
(* top-level sequence.  An item is [kind, pairs, type, text]: a mapping     *)
(* with its key/value pairs in document order, or a scalar.  A pair is      *)
(* [key, type, text]; JSON types are "string", "number", "null", YAML tags  *)
(* are "!!str", "!!int", "!!null".                                          *)

\* encoding/json matches a key to a field exactly or, failing that, ignoring case
FoldKey(key) ==
    IF key = "Path" THEN "path" ELSE IF key = "URL" THEN "url" ELSE key

RECURSIVE jsonObject(_, _, _)
jsonObject(pairs, rec, e) ==
    IF pairs = <<>> THEN [rec |-> rec, err |-> e]
    ELSE LET p == Head(pairs)
             f == TagField(FoldKey(p.key))
         IN IF f = "none" \/ p.type = "null"
            THEN jsonObject(Tail(pairs), rec, e)
            ELSE IF p.type = "string"
            THEN jsonObject(Tail(pairs), SetField(rec, f, p.text), e)
            ELSE jsonObject(Tail(pairs), rec,
                            IF e = "nil" THEN "json.UnmarshalTypeError" ELSE e)

RECURSIVE jsonArray(_, _, _)
jsonArray(items, urls, e) ==
    IF items = <<>> THEN [urls |-> urls, err |-> e]
    ELSE LET it == Head(items) IN
         IF it.kind = "map"
         THEN LET o == jsonObject(it.pairs, ZeroUrl, e)
              IN jsonArray(Tail(items), Append(urls, o.rec), o.err)
         ELSE jsonArray(Tail(items), Append(urls, ZeroUrl),
                        IF e = "nil" THEN "json.UnmarshalTypeError" ELSE e)

\* json.Unmarshal(jsonInput, &urls): what it leaves in urls, and its error
jsonUnmarshal(doc) ==
    IF doc.syntax = "bad" \/ doc.top = "empty"
    THEN [urls |-> <<>>, err |-> "json.SyntaxError"]
    ELSE IF doc.top # "seq"
    THEN [urls |-> <<>>, err |-> "json.UnmarshalTypeError"]
    ELSE jsonArray(doc.items, <<>>, "nil")

RECURSIVE yamlMapping(_, _)
yamlMapping(pairs, rec) ==
    IF pairs = <<>> THEN rec
    ELSE LET p == Head(pairs)
             f == TagField(p.key)
         IN IF f = "none" \/ p.type = "!!null"
            THEN yamlMapping(Tail(pairs), rec)
            ELSE yamlMapping(Tail(pairs), SetField(rec, f, p.text))

\* yaml.v3 rejects a mapping that defines a key twice
uniqueKeys(pairs) ==
    \A i, j \in 1..Len(pairs) : i # j => pairs[i].key # pairs[j].key

RECURSIVE yamlSequence(_, _, _)
yamlSequence(items, urls, e) ==
    IF items = <<>> THEN [urls |-> urls, err |-> e]
    ELSE LET it == Head(items) IN
         IF it.kind = "map" /\ uniqueKeys(it.pairs)
         THEN yamlSequence(Tail(items),
                           Append(urls, yamlMapping(it.pairs, ZeroUrl)), e)
         ELSE yamlSequence(Tail(items), urls, "yaml.TypeError")

\* yaml.Unmarshal(yamlInput, &urls): what it leaves in urls, and its error
yamlUnmarshal(doc) ==
    IF doc.syntax = "bad" THEN [urls |-> <<>>, err |-> "yaml.syntax"]
    ELSE IF doc.top = "empty" THEN [urls |-> <<>>, err |-> "nil"]
    ELSE IF doc.top # "seq" THEN [urls |-> <<>>, err |-> "yaml.TypeError"]
    ELSE yamlSequence(doc.items, <<>>, "nil")

-----------------------------------------------------------------------------
(* The package: parseYAML, parseJSON, buildMap, MapHandler and the loaders *)

\* a parser that drops the error of yaml.Unmarshal
MutParseYAML(yamlInput) == [urls |-> yamlUnmarshal(yamlInput).urls, err |-> "nil"]

parseYAML(yamlInput) ==
    LET u == yamlUnmarshal(yamlInput) IN
    IF u.err # "nil" THEN [urls |-> <<>>, err |-> u.err]
    ELSE [urls |-> u.urls, err |-> "nil"]

\* the struct tags of Path and Url exchanged
MutParseJSON(jsonInput) ==
    LET u == jsonUnmarshal(jsonInput) IN
    IF u.err # "nil" THEN [urls |-> <<>>, err |-> u.err]
    ELSE [urls |-> [i \in 1..Len(u.urls) |->
                      [Path |-> u.urls[i].Url, Url |-> u.urls[i].Path]],
          err |-> "nil"]

parseJSON(jsonInput) ==
    LET u == jsonUnmarshal(jsonInput) IN
    IF u.err # "nil" THEN [urls |-> <<>>, err |-> u.err]
    ELSE [urls |-> u.urls, err |-> "nil"]

RECURSIVE buildMapFrom(_, _)
buildMapFrom(urls, pathsToUrls) ==
    IF urls = <<>> THEN pathsToUrls
    ELSE buildMapFrom(Tail(urls),
                      Put(pathsToUrls, Head(urls).Path, Head(urls).Url))

\* a buildMap that keeps the first url of a path
RECURSIVE MutBuildMapFrom(_, _)
MutBuildMapFrom(urls, pathsToUrls) ==
    IF urls = <<>> THEN pathsToUrls
    ELSE MutBuildMapFrom(Tail(urls),
                         IF Head(urls).Path \in DOMAIN pathsToUrls
                         THEN pathsToUrls
                         ELSE Put(pathsToUrls, Head(urls).Path, Head(urls).Url))

MutBuildMap(urls) == MutBuildMapFrom(urls, EmptyMap)

buildMap(urls) == buildMapFrom(urls, EmptyMap)

\* the nil http.HandlerFunc
NilHandler == [nil |-> TRUE, pathsToUrls |-> EmptyMap, fallback |-> "nil"]

\* MapHandler returns a closure over its two arguments
MapHandler(pathsToUrls, fb) ==
    [nil |-> FALSE, pathsToUrls |-> pathsToUrls, fallback |-> fb]

YAMLHandler(yamlInput, fb) ==
    LET parsed == parseYAML(yamlInput) IN
    IF parsed.err # "nil"
    THEN [handler |-> NilHandler, err |-> parsed.err,
          calls |-> <<"parseYAML">>]
    ELSE [handler |-> MapHandler(buildMap(parsed.urls), fb), err |-> "nil",
          calls |-> <<"parseYAML", "buildMap", "MapHandler">>]

JSONHandler(jsonInput, fb) ==
    LET parsed == parseJSON(jsonInput) IN
    IF parsed.err # "nil"
    THEN [handler |-> NilHandler, err |-> parsed.err,
          calls |-> <<"parseJSON">>]
    ELSE [handler |-> MapHandler(buildMap(parsed.urls), fb), err |-> "nil",
          calls |-> <<"parseJSON", "buildMap", "MapHandler">>]

-----------------------------------------------------------------------------
(* The handler body, statement by statement (handler.go lines 26-34) *)

\* r.URL.String(), for a path and query that need no escaping
URLString(r) ==
    r.Path \o (IF r.RawQuery = <<>> THEN <<>> ELSE <<"?">> \o r.RawQuery)

\* slog.Info("Request url: " + r.URL.String())
LogRequestUrl(log, r) ==
    Append(log, [level |-> "INFO", msg |-> "Request url: ", arg |-> URLString(r)])

\* slog.Info("Redirecting to " + url)
LogRedirecting(log, url) ==
    Append(log, [level |-> "INFO", msg |-> "Redirecting to ", arg |-> url])

\* a handler that falls through without the warning
MutLogNoUrl(log) == log

\* slog.Warn("No url in map")
LogNoUrl(log) ==
    Append(log, [level |-> "WARN", msg |-> "No url in map", arg |-> <<>>])

\* strings.TrimSuffix(path, "/"), which the handler does not apply
TrimSlash(path) ==
    IF Len(path) > 1 /\ HasSuffix(path, <<"/">>)
    THEN SubSeq(path, 1, Len(path) - 1) ELSE path

\* a lookup that ignores a trailing slash of the request path
MutLookup(pathsToUrls, r) ==
    LET path == TrimSlash(r.Path) IN
    [exists |-> path \in DOMAIN pathsToUrls,
     url |-> IF path \in DOMAIN pathsToUrls THEN pathsToUrls[path] ELSE <<>>]

\* path := r.URL.Path; url, exists := pathsToUrls[path]
Lookup(pathsToUrls, r) ==
    LET path == r.Path IN
    [exists |-> path \in DOMAIN pathsToUrls,
     url |-> IF path \in DOMAIN pathsToUrls THEN pathsToUrls[path] ELSE <<>>]

-----------------------------------------------------------------------------
(* Inputs *)

PathA == <<"/", "a">>
PathASlash == <<"/", "a", "/">>
PathB == <<"/", "b">>

UrlAbs == <<"h", ":", "/", "/", "x">>
UrlRel == <<"c">>
UrlDots == <<"/", "a", "/", ".", ".", "/", "b", "?", "x">>
UrlIntl == <<"h", ":", "/", "/", "U+00E9">>

\* the requests the host server hands to the handler: [Method, Path, RawQuery]
Requests ==
    { [Method |-> "GET", Path |-> PathA, RawQuery |-> <<>>],
      [Method |-> "GET", Path |-> PathASlash, RawQuery |-> <<>>],
      [Method |-> "GET", Path |-> PathA, RawQuery |-> <<"x">>],
      [Method |-> "POST", Path |-> PathB, RawQuery |-> <<>>] }

\* the fallback argument: the nil interface, or a handler of the caller
Fallbacks == {"nil", "fb"}

\* what the caller's fallback handler may answer
FallbackStatuses == {200, 404}

\* the maps a caller passes to MapHandler
MapInputs ==
    { EmptyMap,
      Put(EmptyMap, PathA, UrlAbs),
      Put(Put(EmptyMap, PathA, UrlRel), PathASlash, UrlDots),
      Put(Put(EmptyMap, PathA, UrlIntl), PathB, <<>>) }

SeqsUpTo(S, n) == UNION {[1..k -> S] : k \in 0..n}

Pair(k, t, x) == [key |-> k, type |-> t, text |-> x]
MapItem(pairs) == [kind |-> "map", pairs |-> pairs, type |-> "", text |-> <<>>]
ScalarItem(t, x) == [kind |-> "scalar", pairs |-> <<>>, type |-> t, text |-> x]

StrT(fmt) == IF fmt = "json" THEN "string" ELSE "!!str"
NumT(fmt) == IF fmt = "json" THEN "number" ELSE "!!int"
NullT(fmt) == IF fmt = "json" THEN "null" ELSE "!!null"

\* the item {path: p, url: u}
RecItem(fmt, p, u) ==
    MapItem(<<Pair("path", StrT(fmt), p), Pair("url", StrT(fmt), u)>>)

DocPaths == {PathA, PathB}
DocUrls == {UrlAbs, UrlRel}

\* the items of the input documents: the well-formed records, and records
\* with a wrong field name, a missing field, a differently cased key, a key
\* given twice, a number or a null for a value, and an item that is no mapping
Items(fmt) ==
    { RecItem(fmt, p, u) : p \in DocPaths, u \in DocUrls }
    \cup
    { MapItem(<<Pair("pth", StrT(fmt), PathA), Pair("url", StrT(fmt), UrlAbs)>>),
      MapItem(<<Pair("path", StrT(fmt), PathB)>>),
      MapItem(<<Pair("url", StrT(fmt), UrlRel)>>),
      MapItem(<<>>),
      MapItem(<<Pair("Path", StrT(fmt), PathB), Pair("url", StrT(fmt), UrlAbs)>>),
      MapItem(<<Pair("path", StrT(fmt), PathA), Pair("path", StrT(fmt), PathB),
                Pair("url", StrT(fmt), UrlAbs)>>),
      MapItem(<<Pair("path", NumT(fmt), <<"5">>), Pair("url", StrT(fmt), UrlAbs)>>),
      MapItem(<<Pair("path", StrT(fmt), PathA), Pair("url", NullT(fmt), <<>>)>>),
      ScalarItem(StrT(fmt), <<"x">>) }

Doc(syntax, top, items) == [syntax |-> syntax, top |-> top, items |-> items]

\* the documents given to a loader: sequences of up to MaxRecs items, input
\* cut short after at most one item, and top-level values that are no sequence
Docs(fmt) ==
    { Doc("ok", "seq", s) : s \in SeqsUpTo(Items(fmt), MaxRecs) }
    \cup { Doc("bad", "seq", s) : s \in SeqsUpTo(Items(fmt), 1) }
    \cup { Doc("ok", t, <<>>) : t \in {"map", "scalar", "empty"} }

\* the documents of the serving specification
ServeDocs(fmt) ==
    { Doc("ok", "seq", <<>>),
      Doc("ok", "seq", <<RecItem(fmt, PathA, UrlAbs), RecItem(fmt, PathA, UrlRel)>>),
      Doc("ok", "seq", <<MapItem(<<Pair("url", StrT(fmt), UrlRel)>>),
                         RecItem(fmt, PathB, UrlAbs)>>),
      Doc("bad", "seq", <<RecItem(fmt, PathA, UrlAbs)>>) }

-----------------------------------------------------------------------------
(* State *)

NoReq == [Method |-> "", Path |-> <<>>, RawQuery |-> <<>>]

NoResp ==
    [status |-> 0, hasLocation |-> FALSE, Location |-> <<>>,
     contentType |-> FALSE, body |-> FALSE, by |-> "none"]

NoWrite == [op |-> "none", key |-> <<>>, val |-> <<>>]

Idle ==
    [pc |-> "idle", r |-> NoReq, url |-> <<>>, log |-> <<>>, resp |-> NoResp,
     fbCalls |-> 0, fbReq |-> NoReq]

Goroutines == 1..MaxReqs

InitWith(m, in) ==
    /\ mode = m
    /\ input = in
    /\ fallback \in Fallbacks
    /\ handler = "none"
    /\ err = "nil"
    /\ calls = <<>>
    /\ table = EmptyMap
    /\ built = EmptyMap
    /\ writing = NoWrite
    /\ writes = 0
    /\ crashed = FALSE
    /\ reqs = [i \in Goroutines |-> Idle]

Init ==
    \/ \E m \in MapInputs : InitWith("map", m)
    \/ \E d \in ServeDocs("yaml") : InitWith("yaml", d)
    \/ \E d \in ServeDocs("json") : InitWith("json", d)

InitLoad ==
    \/ \E d \in Docs("yaml") : InitWith("yaml", d)
    \/ \E d \in Docs("json") : InitWith("json", d)

InitCaller == \E m \in MapInputs : InitWith("map", m)

-----------------------------------------------------------------------------
(* Construction *)

Install(res) ==
    /\ handler' = IF res.handler.nil THEN "nil" ELSE "closure"
    /\ table' = res.handler.pathsToUrls
    /\ built' = res.handler.pathsToUrls
    /\ err' = res.err
    /\ calls' = res.calls
    /\ UNCHANGED <<mode, input, fallback, writing, writes, crashed, reqs>>

\* the caller calls MapHandler(input, fallback)
ConstructMap ==
    /\ mode = "map" /\ handler = "none"
    /\ Install([handler |-> MapHandler(input, fallback), err |-> "nil",
                calls |-> <<"MapHandler">>])

\* the caller calls YAMLHandler(input, fallback)
ConstructYAML ==
    /\ mode = "yaml" /\ handler = "none"
    /\ Install(YAMLHandler(input, fallback))

\* the caller calls JSONHandler(input, fallback)
ConstructJSON ==
    /\ mode = "json" /\ handler = "none"
    /\ Install(JSONHandler(input, fallback))

-----------------------------------------------------------------------------
(* Serving: each goroutine runs the closure on one request *)

Serving == handler = "closure" /\ ~crashed

Step(i, new) ==
    /\ reqs' = [reqs EXCEPT ![i] = new]
    /\ UNCHANGED <<mode, input, fallback, handler, err, calls, table, built,
                   writing, writes, crashed>>

\* the host server calls the handler with request r
Arrive(i) ==
    /\ Serving /\ reqs[i].pc = "idle"
    /\ \E r \in Requests : Step(i, [reqs[i] EXCEPT !.pc = "l26", !.r = r])

\* line 26
LogRequest(i) ==
    /\ Serving /\ reqs[i].pc = "l26"
    /\ Step(i, [reqs[i] EXCEPT !.pc = "l27",
                               !.log = LogRequestUrl(reqs[i].log, reqs[i].r)])

\* the lookup of lines 27-28 finding t in the map
Looked(i, t) ==
    LET l == Lookup(t, reqs[i].r) IN
    [reqs[i] EXCEPT !.pc = IF l.exists THEN "l29" ELSE "l33", !.url = l.url]

\* lines 27-28, while no write to the map is in progress
LookupPath(i) ==
    /\ Serving /\ reqs[i].pc = "l27" /\ writing = NoWrite
    /\ Step(i, Looked(i, table))

\* line 29
LogRedirect(i) ==
    /\ Serving /\ reqs[i].pc = "l29"
    /\ Step(i, [reqs[i] EXCEPT !.pc = "l30",
                               !.log = LogRedirecting(reqs[i].log, reqs[i].url)])

\* lines 30-31
DoRedirect(i) ==
    /\ Serving /\ reqs[i].pc = "l30"
    /\ Step(i, [reqs[i] EXCEPT
                  !.pc = "done",
                  !.resp = Redirect(reqs[i].r, reqs[i].url, StatusMovedPermanently)])

\* line 33
LogWarn(i) ==
    /\ Serving /\ reqs[i].pc = "l33"
    /\ Step(i, [reqs[i] EXCEPT !.pc = "l34", !.log = LogNoUrl(reqs[i].log)])

\* line 34 with a fallback: the fallback serves the request and answers
CallFallback(i) ==
    /\ Serving /\ reqs[i].pc = "l34" /\ fallback # "nil"
    /\ \E s \in FallbackStatuses :
         Step(i, [reqs[i] EXCEPT
                    !.pc = "done",
                    !.fbCalls = reqs[i].fbCalls + 1,
                    !.fbReq = reqs[i].r,
                    !.resp = [NoResp EXCEPT !.status = s, !.by = "fallback"]])

\* line 34 with the nil interface: the method call panics (nil dereference)
CallNilFallback(i) ==
    /\ Serving /\ reqs[i].pc = "l34" /\ fallback = "nil"
    /\ Step(i, [reqs[i] EXCEPT !.pc = "panic"])

-----------------------------------------------------------------------------
(* The caller of MapHandler still holds the map it passed *)

ApplyWrite(t, w) ==
    IF w.op = "put" THEN Put(t, w.key, w.val)
    ELSE IF w.op = "delete" THEN Delete(t, w.key)
    ELSE t

\* the caller starts pathsToUrls[k] = v or delete(pathsToUrls, k)
CallerWriteBegin ==
    /\ Serving /\ mode = "map" /\ writing = NoWrite /\ writes < MaxWrites
    /\ writes' = writes + 1
    /\ \E k \in DocPaths :
         \/ \E v \in DocUrls :
              /\ ~(k \in DOMAIN table /\ table[k] = v)
              /\ writing' = [op |-> "put", key |-> k, val |-> v]
         \/ /\ k \in DOMAIN table
            /\ writing' = [op |-> "delete", key |-> k, val |-> <<>>]
    /\ UNCHANGED <<mode, input, fallback, handler, err, calls, table, built,
                   crashed, reqs>>

\* the write takes effect
CallerWriteEnd ==
    /\ Serving /\ writing # NoWrite
    /\ table' = ApplyWrite(table, writing)
    /\ writing' = NoWrite
    /\ UNCHANGED <<mode, input, fallback, handler, err, calls, built,
                   writes, crashed, reqs>>

\* lines 27-28 racing with a write: the read returns the old or the new
\* contents, or the runtime detects the race and ends the process
RacyLookup(i) ==
    /\ Serving /\ reqs[i].pc = "l27" /\ writing # NoWrite
    /\ \/ Step(i, Looked(i, table))
       \/ Step(i, Looked(i, ApplyWrite(table, writing)))
       \/ /\ crashed' = TRUE
          /\ UNCHANGED <<mode, input, fallback, handler, err, calls, table,
                         built, writing, writes, reqs>>

-----------------------------------------------------------------------------
(* Specifications *)

Construct == ConstructMap \/ ConstructYAML \/ ConstructJSON

Serve ==
    \E i \in Goroutines :
        \/ Arrive(i)
        \/ LogRequest(i)
        \/ LookupPath(i)
        \/ LogRedirect(i)
        \/ DoRedirect(i)
        \/ LogWarn(i)
        \/ CallFallback(i)
        \/ CallNilFallback(i)

Next == Construct \/ Serve

\* a handler built by any constructor, serving concurrent requests
Spec == Init /\ [][Next]_vars

NextLoad == ConstructYAML \/ ConstructJSON

\* the loaders applied to the input documents
SpecLoad == InitLoad /\ [][NextLoad]_vars

NextCaller ==
    \/ ConstructMap
    \/ Serve
    \/ CallerWriteBegin
    \/ CallerWriteEnd
    \/ \E i \in Goroutines : RacyLookup(i)

\* a handler built by MapHandler, serving while the caller uses its map
SpecCaller == InitCaller /\ [][NextCaller]_vars

-----------------------------------------------------------------------------
(* Properties *)

Terminal(q) == q.pc \in {"done", "panic"}

Redirected(q) == q.pc = "done" /\ q.resp.by = "resolver"

FellThrough(q) == q.pc \in {"l33", "l34", "panic"} \/ (q.pc = "done" /\ q.resp.by = "fallback")

\* u begins with a scheme: letters followed by a colon
StartsWithScheme(u) ==
    \E i \in 2..Len(u) : u[i] = ":" /\ \A j \in 1..(i - 1) : u[j] \in Letters

IsASCII(u) == \A i \in 1..Len(u) : u[i] \notin NonASCII

\* u is a single relative path element
IsName(u) == u # <<>> /\ \A i \in 1..Len(u) : u[i] \in Letters

\* C1 as stated: a finished request whose path p is a key of the table got
\* status 301 and a Location header equal to T[p], whatever string T[p] is,
\* and the fallback was not invoked.
C1_LocationIsUrl ==
    \A i \in Goroutines :
        (Terminal(reqs[i]) /\ reqs[i].r.Path \in DOMAIN table) =>
            /\ reqs[i].pc = "done"
            /\ reqs[i].resp.status = 301
            /\ reqs[i].resp.hasLocation
            /\ reqs[i].resp.Location = table[reqs[i].r.Path]
            /\ reqs[i].fbCalls = 0

\* C1 amended: a finished request whose path p is a key of the table got
\* status 301 from the resolver and the fallback was not invoked; the
\* Location header equals T[p] when T[p] is ASCII and begins with a scheme,
\* and is the directory of the request path followed by T[p] when T[p] is a
\* single relative path element.
C1_Redirect ==
    \A i \in Goroutines :
        (Terminal(reqs[i]) /\ reqs[i].r.Path \in DOMAIN table) =>
            LET url == table[reqs[i].r.Path] IN
            /\ reqs[i].pc = "done"
            /\ reqs[i].resp.by = "resolver"
            /\ reqs[i].resp.status = 301
            /\ reqs[i].resp.hasLocation
            /\ reqs[i].fbCalls = 0
            /\ (StartsWithScheme(url) /\ IsASCII(url)) =>
                   reqs[i].resp.Location = url
            /\ IsName(url) =>
                   reqs[i].resp.Location = SplitDir(reqs[i].r.Path) \o url

\* a request was redirected to a url that begins with a scheme
C1_Witness ==
    \E i \in Goroutines :
        /\ Redirected(reqs[i])
        /\ reqs[i].r.Path \in DOMAIN table
        /\ StartsWithScheme(table[reqs[i].r.Path])
        /\ IsASCII(table[reqs[i].r.Path])

\* C2: a finished request whose path is not a key of the table had the
\* fallback invoked exactly once, with the request as it arrived, and the
\* resolver wrote nothing to the response.
C2_FallbackOnMiss ==
    \A i \in Goroutines :
        (Terminal(reqs[i]) /\ reqs[i].r.Path \notin DOMAIN table) =>
            /\ reqs[i].fbCalls = 1
            /\ reqs[i].fbReq = reqs[i].r
            /\ reqs[i].resp.by = "fallback"
            /\ ~reqs[i].resp.hasLocation

\* what the decoder of the chosen loader makes of the input
Unmarshalled == IF mode = "yaml" THEN yamlUnmarshal(input) ELSE jsonUnmarshal(input)

CallSet == {calls[i] : i \in 1..Len(calls)}

\* C3: when the decoder reports an error, the loader returns that error and
\* the nil handler; buildMap and MapHandler were not called and nothing of
\* what the decoder had already decoded is returned.
C3_ParseFailure ==
    (mode \in {"yaml", "json"} /\ handler # "none" /\ Unmarshalled.err # "nil") =>
        /\ handler = "nil"
        /\ err = Unmarshalled.err
        /\ CallSet \cap {"buildMap", "MapHandler"} = {}
        /\ table = EmptyMap

\* a loader failed on a document of which the decoder had decoded records
C3_Witness ==
    /\ mode \in {"yaml", "json"}
    /\ handler = "nil"
    /\ err # "nil"
    /\ Unmarshalled.urls # <<>>

\* the keys of a mapping item
Keys(item) == {item.pairs[i].key : i \in 1..Len(item.pairs)}

\* a record with a wrong field name or without path or without url
NonConforming(item) == item.kind = "map" /\ Keys(item) # {"path", "url"}

\* C4: loading a well-formed document with a record of the wrong shape fails:
\* an error is returned and no handler is constructed.
C4_ShapeChecked ==
    (/\ mode \in {"yaml", "json"} /\ handler # "none"
     /\ input.syntax = "ok" /\ input.top = "seq"
     /\ \E i \in 1..Len(input.items) : NonConforming(input.items[i])) =>
        (handler = "nil" /\ err # "nil")

\* the records the parser of the chosen loader returned
Parsed == IF mode = "yaml" THEN parseYAML(input).urls ELSE parseJSON(input).urls

\* C5: the table built from a sequence of records has exactly the paths of
\* the sequence as keys and maps each path to the url of the last record
\* with that path.
C5_LastWins ==
    (mode \in {"yaml", "json"} /\ handler = "closure") =>
        LET urls == Parsed IN
        /\ DOMAIN table = {urls[i].Path : i \in 1..Len(urls)}
        /\ \A i \in 1..Len(urls) :
               (\A j \in (i + 1)..Len(urls) : urls[j].Path # urls[i].Path) =>
                   table[urls[i].Path] = urls[i].Url

\* a table was built from records of which two give one path different urls
C5_Witness ==
    /\ mode \in {"yaml", "json"} /\ handler = "closure"
    /\ \E i, j \in 1..Len(Parsed) :
           i < j /\ Parsed[i].Path = Parsed[j].Path /\ Parsed[i].Url # Parsed[j].Url

RecSeqs == SeqsUpTo([Path : DocPaths, Url : DocUrls], MaxRecs)

\* the document of format fmt that encodes the records recs
Encode(fmt, recs) ==
    Doc("ok", "seq", [i \in 1..Len(recs) |-> RecItem(fmt, recs[i].Path, recs[i].Url)])

\* C6: a loader given the encoding of a sequence of records returns, without
\* error, a handler whose table is the table of those records; the YAML and
\* the JSON loader return for the two encodings the same handler, which is
\* MapHandler applied to that table and the same fallback.
C6_SameTable ==
    \A recs \in RecSeqs :
        (mode \in {"yaml", "json"} /\ handler # "none" /\ input = Encode(mode, recs)) =>
            /\ handler = "closure"
            /\ err = "nil"
            /\ table = buildMap(recs)
            /\ YAMLHandler(Encode("yaml", recs), fallback).handler
                   = MapHandler(table, fallback)
            /\ JSONHandler(Encode("json", recs), fallback).handler
                   = MapHandler(table, fallback)

\* the JSON loader was given the encoding of two records
C6_Witness ==
    /\ mode = "json" /\ handler = "closure"
    /\ \E recs \in RecSeqs : Len(recs) = 2 /\ input = Encode("json", recs)

\* path equals key, character for character
SameString(path, key) ==
    Len(path) = Len(key) /\ \A n \in 1..Len(path) : path[n] = key[n]

\* C7: a request takes the redirect branch if and only if its path is,
\* character for character, a key of the table; otherwise it falls through
\* to the fallback branch.
C7_ExactMatch ==
    \A i \in Goroutines :
        LET q == reqs[i]
            hit == \E k \in DOMAIN table : SameString(q.r.Path, k)
        IN /\ (q.pc \in {"l29", "l30"} \/ Redirected(q)) => hit
           /\ FellThrough(q) => ~hit
           /\ q.fbCalls > 0 => q.fbReq = q.r

\* a request for /a/ fell through although /a is a key of the table
C7_Witness ==
    \E i \in Goroutines :
        /\ reqs[i].r.Path = PathASlash
        /\ PathA \in DOMAIN table
        /\ reqs[i].pc = "done" /\ reqs[i].resp.by = "fallback"

\* C8: once the handler is constructed, the table it captured is the table
\* as it was at construction, under every interleaving of requests and of
\* the caller's later actions.
C8_TableImmutable == handler = "closure" => table = built

InfoRequest(q) == [level |-> "INFO", msg |-> "Request url: ", arg |-> URLString(q.r)]
InfoTarget(q) == [level |-> "INFO", msg |-> "Redirecting to ", arg |-> q.url]
WarnNoUrl == [level |-> "WARN", msg |-> "No url in map", arg |-> <<>>]

\* C9: the log of one request starts with the informational entry of the
\* request; a response written by the resolver is preceded by exactly that
\* entry and the informational entry of the target; a call of the fallback
\* is preceded by exactly the request entry and the warning; a finished
\* request has logged two entries, the second being one of the two.
C9_LogOrder ==
    \A i \in Goroutines :
        LET q == reqs[i] IN
        /\ q.pc \in {"idle", "l26"} => q.log = <<>>
        /\ q.pc \in {"l27", "l29", "l33"} => q.log = <<InfoRequest(q)>>
        /\ q.pc = "l30" => (q.log = <<InfoRequest(q), InfoTarget(q)>> /\ q.resp = NoResp)
        /\ q.pc = "l34" => (q.log = <<InfoRequest(q), WarnNoUrl>> /\ q.fbCalls = 0)
        /\ q.resp.by = "resolver" => q.log = <<InfoRequest(q), InfoTarget(q)>>
        /\ (q.fbCalls > 0 \/ q.pc = "panic") => q.log = <<InfoRequest(q), WarnNoUrl>>
        /\ Terminal(q) =>
               (q.log = <<InfoRequest(q), InfoTarget(q)>>
                \/ q.log = <<InfoRequest(q), WarnNoUrl>>)

\* one request was redirected and another was handed to the fallback
C9_Witness ==
    \E i, j \in Goroutines :
        /\ Redirected(reqs[i])
        /\ reqs[j].pc = "done" /\ reqs[j].fbCalls = 1

\* C10: every request served by a constructed handler ends either in a 301
\* written by the resolver or in a call of the fallback, never in an error
\* of the resolver, whatever fallback was given at construction.
C10_NoFailurePath ==
    \A i \in Goroutines :
        Terminal(reqs[i]) =>
            \/ (Redirected(reqs[i]) /\ reqs[i].resp.status = 301 /\ reqs[i].fbCalls = 0)
            \/ (reqs[i].pc = "done" /\ reqs[i].resp.by = "fallback" /\ reqs[i].fbCalls = 1)

====
